---- MODULE Spec2Model ----
(***************************************************************************)
(* Model of the chess puzzle trainer's core: the puzzle selector's         *)
(* fallback cascade over the SQLite puzzle store (core/puzzle_selector.py) *)
(* and the move validator's solution walk (core/move_validator.py).        *)
(***************************************************************************)
EXTENDS Integers, Sequences, FiniteSets, TLC

VARIABLES
    \* ---- puzzle store and one select_puzzle call ----
    store,          \* rows of the puzzles table; puzzle_id = index in the sequence
    sel_pc,         \* position inside select_puzzle
    sel_args,       \* arguments of the call in progress
    sel_puzzle,     \* puzzle_id returned (NoPuzzle: none)
    sel_tier,       \* cascade query that produced the returned puzzle (0: none)
    \* ---- one MoveValidator instance ----
    v_state,        \* "none" before construction, "active" afterwards
    puzzle,         \* MoveValidator.puzzle: the record [fen, moves]
    board,          \* MoveValidator.board
    solution_moves, \* MoveValidator.solution_moves
    current_move_index,  \* MoveValidator.current_move_index (the cursor)
    v_last,         \* the last call on the validator: its input, its result and
                    \* the number of rejected submissions right before it (capped)
    \* ---- PuzzleManager and its ProgressTracker ----
    entries,        \* ProgressTracker.entries: the progress log, oldest first
    current_puzzle, \* PuzzleManager.current_puzzle: puzzle_id (NoPuzzle: None)
    move_attempts,  \* PuzzleManager.move_attempts
    hints_used,     \* PuzzleManager.hints_used
    hint_system,    \* PuzzleManager.hint_system (NoHintSystem: None)
    timer,          \* PuzzleManager.timer: the start_puzzle call that created it (0: None)
    starts,         \* number of start_puzzle calls that returned
    m_last,         \* the last call on the manager and what it returned
    stats           \* the UserProgress returned by the last get_statistics

sel_vars == <<store, sel_pc, sel_args, sel_puzzle, sel_tier>>

val_vars == <<v_state, puzzle, board, solution_moves, current_move_index, v_last>>

mgr_vars == <<entries, current_puzzle, move_attempts, hints_used, hint_system, timer,
              starts, m_last, stats>>

vars == <<store, sel_pc, sel_args, sel_puzzle, sel_tier,
          v_state, puzzle, board, solution_moves, current_move_index,
          v_last,
          entries, current_puzzle, move_attempts, hints_used, hint_system, timer,
          starts, m_last, stats>>

----------------------------------------------------------------------------
(* Bounds *)

\* Largest number of rows in the puzzles table.
MaxPuzzles == 2

\* Longest move list of a puzzle record (setup move included).
MaxMoves == 4

\* Cap of the count of consecutive rejected submissions.
MaxRejects == 2

----------------------------------------------------------------------------
(* config/constants.py *)

ENDGAME_PIECE_THRESHOLD == 12

\* The members of the keyword lists that occur in the modelled store.
ENDGAME_THEMES == {"endgame", "mateIn1", "promotion"}

OPENING_THEMES == {"opening", "openingVariation", "trap"}

\* Difficulty enum: level -> (min_rating, max_rating)
Difficulty ==
    [d \in 1..5 |->
        CASE d = 1 -> <<600, 1200>>
          [] d = 2 -> <<1200, 1600>>
          [] d = 3 -> <<1600, 2000>>
          [] d = 4 -> <<2000, 2400>>
          [] d = 5 -> <<2400, 3000>>]

\* Settings.get_difficulty_range: the level's pair, ValueError outside 1..5.
ValueError == <<-1, -1>>

get_difficulty_range(difficulty) ==
    IF difficulty \notin DOMAIN Difficulty THEN ValueError ELSE Difficulty[difficulty]

----------------------------------------------------------------------------
(* The puzzle store *)

\* None, for a puzzle id or a difficulty level.
NoPuzzle == 0
NoTheme == ""
NoPhase == ""
NULL == "NULL"

\* Rows of the puzzles table with their puzzle_themes; opening_tags is the
\* comma-joined text column ('' when the puzzle has no opening tags).
Row(r, pc, tags, th) ==
    [rating |-> r, piece_count |-> pc, opening_tags |-> tags, themes |-> th]

Profiles ==
    << Row(1100,  8, "",   {}),
       Row(1100, 12, "",   {"fork"}),
       Row(1200, 12, "",   {"fork"}),
       Row(1200, 12, "",   {"fork", "mateIn1"}),
       Row(1300, 12, "e4", {"fork"}),
       Row(1600, 20, "",   {"pin"}),
       Row(1700, 12, "",   {"mateIn1"}),
       Row(1700,  8, "",   {"trap", "fork"}),
       Row(2000, 11, "",   {"fork"}),
       Row(2400, 12, "",   {}),
       Row(3000, 12, "e4", {"fork", "trap"}) >>

\* Stores are taken up to renaming of puzzle ids: rows in profile order.
Stores ==
    UNION { { s \in [1..n -> 1..Len(Profiles)] :
                \A i \in 1..(n - 1) : s[i] <= s[i + 1] } : n \in 0..MaxPuzzles }

StoreOf(s) == [i \in DOMAIN s |-> Profiles[s[i]]]

Ids == DOMAIN store

\* The request values exercised.
DifficultyArgs == (1..5) \cup {10}
PhaseArgs == {"opening", "middlegame", "endgame", NoPhase}
ThemeArgs == {NoTheme, "fork", "mateIn1"}

----------------------------------------------------------------------------
(* PuzzleSelector._build_phase_filter / _query_puzzle                      *)
(* The query joins puzzles LEFT JOIN puzzle_themes LEFT JOIN themes, so    *)
(* the WHERE clause is evaluated once per (puzzle, theme) row; a puzzle    *)
(* without themes yields one row whose theme_name is NULL.  Each operator  *)
(* below is TRUE exactly when the SQL expression evaluates to true (a NULL *)
(* comparison is not true).                                                *)

JoinRows(p) == IF p.themes = {} THEN {NULL} ELSE p.themes

SqlIn(t, list) == t # NULL /\ t \in list
SqlNotIn(t, list) == t # NULL /\ t \notin list

\* A phase filter whose endgame branch compares with <= instead of <.
build_phase_filter_EndgameInclusive(game_phase, p, t) ==
    IF game_phase = "opening"
    THEN p.opening_tags # "" \/ SqlIn(t, OPENING_THEMES)
    ELSE IF game_phase = "endgame"
    THEN p.piece_count <= ENDGAME_PIECE_THRESHOLD \/ SqlIn(t, ENDGAME_THEMES)
    ELSE p.piece_count >= ENDGAME_PIECE_THRESHOLD
            /\ (t = NULL \/ SqlNotIn(t, ENDGAME_THEMES))

\* _build_phase_filter, on one joined row (p, t).
build_phase_filter(game_phase, p, t) ==
    IF game_phase = "opening"
    THEN p.opening_tags # "" \/ SqlIn(t, OPENING_THEMES)
    ELSE IF game_phase = "endgame"
    THEN p.piece_count < ENDGAME_PIECE_THRESHOLD \/ SqlIn(t, ENDGAME_THEMES)
    ELSE p.piece_count >= ENDGAME_PIECE_THRESHOLD
            /\ (t = NULL \/ SqlNotIn(t, ENDGAME_THEMES))

\* p.rating BETWEEN ? AND ?
RatingFilter(difficulty, p) ==
    LET range == get_difficulty_range(difficulty)
    IN  range[1] <= p.rating /\ p.rating <= range[2]

\* WHERE clause of _query_puzzle on one joined row.
WhereRow(difficulty, game_phase, solved, exclude_solved, theme, id, t) ==
    LET p == store[id]
    IN  /\ (difficulty # NoPuzzle => RatingFilter(difficulty, p))
        /\ (game_phase # NoPhase => build_phase_filter(game_phase, p, t))
        /\ (theme # NoTheme => t # NULL /\ t = theme)
        /\ ((exclude_solved /\ solved # {}) => id \notin solved)

\* SELECT DISTINCT p.* ... : the puzzles with at least one row passing.
\* difficulty = NoPuzzle (0) stands for None.
query_puzzle(difficulty, game_phase, solved, exclude_solved, theme) ==
    { id \in Ids :
        \E t \in JoinRows(store[id]) :
            WhereRow(difficulty, game_phase, solved, exclude_solved, theme, id, t) }

\* _query_puzzle raises ValueError (from get_difficulty_range) for a level
\* outside 1..5.
QueryRaises(difficulty) ==
    difficulty # NoPuzzle /\ get_difficulty_range(difficulty) = ValueError

----------------------------------------------------------------------------
(* PuzzleSelector.select_puzzle, one action per query of the cascade *)

\* The query issued at each position of select_puzzle.
QueryAt(pc, a) ==
    CASE pc = "exact"    -> query_puzzle(a.difficulty, a.game_phase, a.solved, TRUE, a.theme)
      [] pc = "solved"   -> query_puzzle(a.difficulty, a.game_phase, a.solved, FALSE, a.theme)
      [] pc = "adj_down" -> query_puzzle(a.difficulty - 1, a.game_phase, a.solved, FALSE, a.theme)
      [] pc = "adj_up"   -> query_puzzle(a.difficulty + 1, a.game_phase, a.solved, FALSE, a.theme)
      [] pc = "no_phase" -> query_puzzle(a.difficulty, NoPhase, a.solved, FALSE, a.theme)
      [] pc = "no_theme" -> query_puzzle(a.difficulty, a.game_phase, a.solved, FALSE, NoTheme)
      [] pc = "any"      -> query_puzzle(NoPuzzle, NoPhase, a.solved, FALSE, NoTheme)

DifficultyAt(pc, a) ==
    CASE pc = "adj_down" -> a.difficulty - 1
      [] pc = "adj_up"   -> a.difficulty + 1
      [] pc = "any"      -> NoPuzzle
      [] OTHER           -> a.difficulty

\* Whether select_puzzle issues the query at this position at all.
Issued(pc, a) ==
    CASE pc = "solved"   -> a.solved # {}
      [] pc = "adj_down" -> 1 <= a.difficulty - 1 /\ a.difficulty - 1 <= 5
      [] pc = "adj_up"   -> 1 <= a.difficulty + 1 /\ a.difficulty + 1 <= 5
      [] pc = "no_theme" -> a.theme # NoTheme
      [] OTHER           -> TRUE

\* A cascade without its unconstrained last query.
NextPc_NoLastQuery(pc) ==
    CASE pc = "exact"    -> "solved"
      [] pc = "solved"   -> "adj_down"
      [] pc = "adj_down" -> "adj_up"
      [] pc = "adj_up"   -> "no_phase"
      [] pc = "no_phase" -> "no_theme"
      [] pc = "no_theme" -> "not_found"
      [] pc = "any"      -> "not_found"

\* A cascade that tries the adjacent difficulties before the solved puzzles.
NextPc_AdjacentFirst(pc) ==
    CASE pc = "exact"    -> "adj_down"
      [] pc = "adj_down" -> "adj_up"
      [] pc = "adj_up"   -> "solved"
      [] pc = "solved"   -> "no_phase"
      [] pc = "no_phase" -> "no_theme"
      [] pc = "no_theme" -> "any"
      [] pc = "any"      -> "not_found"

NextPc(pc) ==
    CASE pc = "exact"    -> "solved"
      [] pc = "solved"   -> "adj_down"
      [] pc = "adj_down" -> "adj_up"
      [] pc = "adj_up"   -> "no_phase"
      [] pc = "no_phase" -> "no_theme"
      [] pc = "no_theme" -> "any"
      [] pc = "any"      -> "not_found"

TierOf(pc) ==
    CASE pc = "exact"    -> 1
      [] pc = "solved"   -> 2
      [] pc = "adj_down" -> 3
      [] pc = "adj_up"   -> 3
      [] pc = "no_phase" -> 4
      [] pc = "no_theme" -> 5
      [] pc = "any"      -> 6

QueryPcs == {"exact", "solved", "adj_down", "adj_up", "no_phase", "no_theme", "any"}

NoArgs == [difficulty |-> 1, game_phase |-> NoPhase, solved |-> {}, theme |-> NoTheme]

\* Entry of select_puzzle: solved_puzzle_ids = solved_puzzle_ids or set().
select_puzzle ==
    /\ sel_pc = "idle"
    /\ \E d \in DifficultyArgs, ph \in PhaseArgs, th \in ThemeArgs, ex \in SUBSET Ids :
          sel_args' = [difficulty |-> d, game_phase |-> ph, solved |-> ex, theme |-> th]
    /\ sel_pc' = "exact"
    /\ sel_puzzle' = NoPuzzle
    /\ sel_tier' = 0
    /\ UNCHANGED store
    /\ UNCHANGED <<val_vars, mgr_vars>>

\* A query that is skipped by its guard.
SkipQuery ==
    /\ sel_pc \in QueryPcs
    /\ ~Issued(sel_pc, sel_args)
    /\ sel_pc' = NextPc(sel_pc)
    /\ UNCHANGED <<store, sel_args, sel_puzzle, sel_tier>>
    /\ UNCHANGED <<val_vars, mgr_vars>>

\* get_difficulty_range raises inside _query_puzzle; nothing catches it.
QueryValueError ==
    /\ sel_pc \in QueryPcs
    /\ Issued(sel_pc, sel_args)
    /\ QueryRaises(DifficultyAt(sel_pc, sel_args))
    /\ sel_pc' = "value_error"
    /\ UNCHANGED <<store, sel_args, sel_puzzle, sel_tier>>
    /\ UNCHANGED <<val_vars, mgr_vars>>

\* ORDER BY RANDOM() LIMIT 1 returned a row: select_puzzle returns it.
QueryHit ==
    /\ sel_pc \in QueryPcs
    /\ Issued(sel_pc, sel_args)
    /\ ~QueryRaises(DifficultyAt(sel_pc, sel_args))
    /\ \E id \in QueryAt(sel_pc, sel_args) :
          /\ sel_puzzle' = id
          /\ sel_tier' = TierOf(sel_pc)
    /\ sel_pc' = "returned"
    /\ UNCHANGED <<store, sel_args>>
    /\ UNCHANGED <<val_vars, mgr_vars>>

\* The query returned no row: fall through to the next one, or raise
\* PuzzleNotFoundError after the last.
QueryMiss ==
    /\ sel_pc \in QueryPcs
    /\ Issued(sel_pc, sel_args)
    /\ ~QueryRaises(DifficultyAt(sel_pc, sel_args))
    /\ QueryAt(sel_pc, sel_args) = {}
    /\ sel_pc' = NextPc(sel_pc)
    /\ UNCHANGED <<store, sel_args, sel_puzzle, sel_tier>>
    /\ UNCHANGED <<val_vars, mgr_vars>>

\* The call has ended (a puzzle, PuzzleNotFoundError or ValueError) and control
\* is back at the caller; the selector keeps nothing between calls.
SelectReturn ==
    /\ sel_pc \in {"returned", "not_found", "value_error"}
    /\ sel_pc' = "idle"
    /\ sel_args' = NoArgs
    /\ sel_puzzle' = NoPuzzle
    /\ sel_tier' = 0
    /\ UNCHANGED store
    /\ UNCHANGED <<val_vars, mgr_vars>>

----------------------------------------------------------------------------
(* The chess rules engine the validator is written against (chess.Board of *)
(* python-chess), reduced to a board of one file of six squares with kings *)
(* (one step) and knights (two steps, jumping).  It keeps what the         *)
(* validator relies on: a position built from a FEN, the side to move, the *)
(* legal moves of the position, push() applying a move without checking    *)
(* it, SAN parsed relative to the position (piece letter, optional source  *)
(* square, destination; ambiguous or illegal SAN is a ValueError) and      *)
(* coordinate notation (source and destination square).                    *)

Squares == 1..6
Empty == "--"
PieceTypes == {"K", "N"}

Color(pc) == IF pc \in {"wK", "wN"} THEN "w" ELSE IF pc \in {"bK", "bN"} THEN "b" ELSE Empty
TypeOf(pc) == IF pc \in {"wK", "bK"} THEN "K" ELSE IF pc \in {"wN", "bN"} THEN "N" ELSE Empty
Other(c) == IF c = "w" THEN "b" ELSE "w"

\* chess.Move: (from_square, to_square); the null move is (0, 0).
Move(f, t) == <<f, t>>
NullMove == <<0, 0>>
Moves == { Move(f, t) : f \in Squares, t \in Squares }

\* chess.Board(fen)
Board(fen) == [pieces |-> fen.pieces, turn |-> fen.turn, stack |-> <<>>]

\* The squares a piece of type ty reaches from square f on an empty board.
Reach(ty, f) ==
    IF ty = "K" THEN {f - 1, f + 1} \cap Squares
    ELSE IF ty = "N" THEN {f - 2, f + 2} \cap Squares
    ELSE {}

\* board.legal_moves
legal_moves(b) ==
    UNION { { Move(f, t) : t \in { u \in Reach(TypeOf(b.pieces[f]), f) :
                                      /\ Color(b.pieces[u]) # b.turn
                                      /\ TypeOf(b.pieces[u]) # "K" } } :
            f \in { s \in Squares : Color(b.pieces[s]) = b.turn } }

\* board.push(move): moves whatever stands on the source square, legal or
\* not, and passes the turn.
push(b, m) ==
    [pieces |-> [s \in Squares |->
                    IF s = m[2] THEN b.pieces[m[1]]
                    ELSE IF s = m[1] THEN Empty
                    ELSE b.pieces[s]],
     turn   |-> Other(b.turn),
     stack  |-> Append(b.stack, m)]

\* User input, by notation: SAN (piece letter, source square or 0 when not
\* given, destination), coordinate notation (source, destination), the
\* null move ("--", "0000") or any other text.
Input(k, pc, f, t) == [kind |-> k, piece |-> pc, from |-> f, to |-> t]
NoInput == Input("none", Empty, 0, 0)
Inputs ==
    { Input("san", pc, 0, t) : pc \in PieceTypes, t \in Squares }
    \cup { inp \in { Input("san", pc, f, t) : pc \in PieceTypes, f \in Squares, t \in Squares } :
                inp.to \in Reach(inp.piece, inp.from) }
    \cup { Input("uci", Empty, f, t) : f \in Squares, t \in Squares }
    \cup { Input("null", Empty, 0, 0), Input("text", Empty, 0, 0) }

ParseError == <<-1, -1>>

SanCandidates(b, inp) ==
    { m \in legal_moves(b) :
        /\ TypeOf(b.pieces[m[1]]) = inp.piece
        /\ m[2] = inp.to
        /\ (inp.from # 0 => m[1] = inp.from) }

\* board.parse_san(san): the one legal move the SAN names, the null move
\* for "--", ValueError otherwise.
parse_san(b, inp) ==
    IF inp.kind = "null" THEN NullMove
    ELSE IF inp.kind = "san" /\ Cardinality(SanCandidates(b, inp)) = 1
    THEN CHOOSE m \in SanCandidates(b, inp) : TRUE
    ELSE ParseError

\* chess.Move.from_uci(uci): ValueError unless two different squares.
from_uci(inp) ==
    IF inp.kind = "uci" /\ inp.from # inp.to THEN Move(inp.from, inp.to) ELSE ParseError

----------------------------------------------------------------------------
(* data/models.py: Puzzle *)

Fen(pcs, t) == [pieces |-> pcs, turn |-> t]

Fens ==
    { Fen(<<"bN", "wN", "wK", "--", "bK", "wN">>, "w"),
      Fen(<<"wN", "--", "bK", "wK", "wN", "bN">>, "b") }

\* Puzzle.solution_moves: moves[1:]
Puzzle_solution_moves(moves) == SubSeq(moves, 2, Len(moves))

\* The lines of at most n legal moves playable from position b.
RECURSIVE Lines(_, _)
Lines(b, n) ==
    IF n = 0 THEN {<<>>}
    ELSE {<<>>} \cup UNION { { <<m>> \o l : l \in Lines(push(b, m), n - 1) } :
                              m \in legal_moves(b) }

\* The puzzle records of the store: a position and a line of 2..MaxMoves
\* moves played from it (the setup move, then the solution), as imported
\* from the puzzle database.
Puzzles ==
    UNION { { [fen |-> f, moves |-> ms] :
                ms \in { l \in Lines(Board(f), MaxMoves) : Len(l) >= 2 } } : f \in Fens }

----------------------------------------------------------------------------
(* core/move_validator.py: MoveValidator *)

\* A _setup_board that forgets the setup move.
setup_board_NoSetupMove(pz) == Board(pz.fen)

\* _setup_board: the position of the FEN with moves[0] pushed.
setup_board(pz) == push(Board(pz.fen), pz.moves[1])

\* An is_complete that is one move early.
is_complete_OneEarly(index, sol) == index + 1 >= Len(sol)

\* is_complete
is_complete(index, sol) == index >= Len(sol)

\* get_current_solution_move: None when complete.
NoMove == <<>>

\* A get_current_solution_move that reads one entry too early.
get_current_solution_move_OffByOne(index, sol) ==
    IF index >= Len(sol) THEN NoMove ELSE sol[IF index = 0 THEN 1 ELSE index]

get_current_solution_move(index, sol) ==
    IF index >= Len(sol) THEN NoMove ELSE sol[index + 1]

Max(a, b) == IF a >= b THEN a ELSE b

\* get_moves_remaining
get_moves_remaining(index, sol) == Max(0, Len(sol) - index)

\* A _parse_move without the coordinate-notation fallback.
parse_move_SanOnly(b, inp) == parse_san(b, inp)

\* _parse_move: SAN first, then coordinate notation accepted only when the
\* move is legal; ParseError stands for the InvalidMoveError raised.
parse_move(b, inp) ==
    IF parse_san(b, inp) # ParseError THEN parse_san(b, inp)
    ELSE IF from_uci(inp) # ParseError /\ from_uci(inp) \in legal_moves(b)
    THEN from_uci(inp)
    ELSE ParseError

MsgInvalid == "Invalid move format"
MsgIllegal == "Illegal move. That move is not allowed in this position."
MsgComplete == "Puzzle already complete!"
MsgIncorrect == "Incorrect. Try again or type 'hint' for help."
MsgSolved == "Puzzle solved! Well done!"
MsgContinue == "Correct! Continue..."

Result(acc, msg, b, i) == [accepted |-> acc, message |-> msg, board |-> b, index |-> i]

\* A rejection that has already put the submitted move on the board.
reject_incorrect_Applied(b, index, move) == Result(FALSE, MsgIncorrect, push(b, move), index)

\* The legal move differs from the expected one: expected_san is computed
\* and dropped, nothing is applied.
reject_incorrect(b, index, move) == Result(FALSE, MsgIncorrect, b, index)

\* A correct move that is applied without the opponent's reply.
apply_correct_NoReply(b, index, sol, move) ==
    IF is_complete(index + 1, sol)
    THEN Result(TRUE, MsgSolved, push(b, move), index + 1)
    ELSE Result(TRUE, MsgContinue, push(b, move), index + 1)

\* A correct move whose reply is put on the board without being counted.
apply_correct_ReplyNotCounted(b, index, sol, move) ==
    IF is_complete(index + 1, sol)
    THEN Result(TRUE, MsgSolved, push(b, move), index + 1)
    ELSE Result(TRUE, MsgContinue, push(push(b, move), sol[index + 2]), index + 1)

\* A correct move whose reply is counted without being put on the board.
apply_correct_ReplyNotPlayed(b, index, sol, move) ==
    IF is_complete(index + 1, sol)
    THEN Result(TRUE, MsgSolved, push(b, move), index + 1)
    ELSE Result(TRUE, IF is_complete(index + 2, sol) THEN MsgSolved ELSE MsgContinue,
                push(b, move), index + 2)

\* The move equals the expected one: apply it, then the opponent's reply
\* when one remains.
apply_correct(b, index, sol, move) ==
    LET b1 == push(b, move)
        i1 == index + 1
    IN  IF is_complete(i1, sol) THEN Result(TRUE, MsgSolved, b1, i1)
        ELSE IF i1 < Len(sol)
        THEN LET b2 == push(b1, sol[i1 + 1])
                 i2 == i1 + 1
             IN  IF is_complete(i2, sol)
                 THEN Result(TRUE, MsgSolved, b2, i2)
                 ELSE Result(TRUE, MsgContinue, b2, i2)
        ELSE Result(TRUE, MsgSolved, b1, i1)

\* A validate_move whose rejection of a wrong legal move tells on which
\* half of the board the expected move ends.
validate_move_result_Leaky(b, index, sol, inp) ==
    LET move == parse_move(b, inp)
    IN  IF move = ParseError THEN Result(FALSE, MsgInvalid, b, index)
        ELSE IF move \notin legal_moves(b) THEN Result(FALSE, MsgIllegal, b, index)
        ELSE IF index >= Len(sol) THEN Result(FALSE, MsgComplete, b, index)
        ELSE IF move # sol[index + 1]
        THEN Result(FALSE, IF sol[index + 1][2] <= 3 THEN "Incorrect. Look to the left."
                           ELSE "Incorrect. Look to the right.", b, index)
        ELSE apply_correct(b, index, sol, move)

\* A validate_move that reports a finished puzzle as solved once more when
\* a legal move comes in.
validate_move_result_SolvedAgain(b, index, sol, inp) ==
    LET move == parse_move(b, inp)
    IN  IF move = ParseError THEN Result(FALSE, MsgInvalid, b, index)
        ELSE IF move \notin legal_moves(b) THEN Result(FALSE, MsgIllegal, b, index)
        ELSE IF index >= Len(sol) THEN Result(TRUE, MsgSolved, b, index)
        ELSE IF move # sol[index + 1] THEN reject_incorrect(b, index, move)
        ELSE apply_correct(b, index, sol, move)

\* A validate_move that compares the submission with the entry after the
\* expected one when there is one.
validate_move_result_ComparesNext(b, index, sol, inp) ==
    LET move == parse_move(b, inp)
    IN  IF move = ParseError THEN Result(FALSE, MsgInvalid, b, index)
        ELSE IF move \notin legal_moves(b) THEN Result(FALSE, MsgIllegal, b, index)
        ELSE IF index >= Len(sol) THEN Result(FALSE, MsgComplete, b, index)
        ELSE IF move # sol[IF index + 2 <= Len(sol) THEN index + 2 ELSE index + 1]
        THEN reject_incorrect(b, index, move)
        ELSE apply_correct(b, index, sol, move)

\* validate_move, from the state (b, index) of a validator with solution
\* sol: the returned pair and the state it leaves.
validate_move_result(b, index, sol, inp) ==
    LET move == parse_move(b, inp)
    IN  IF move = ParseError THEN Result(FALSE, MsgInvalid, b, index)
        ELSE IF move \notin legal_moves(b) THEN Result(FALSE, MsgIllegal, b, index)
        ELSE IF index >= Len(sol) THEN Result(FALSE, MsgComplete, b, index)
        ELSE IF move # sol[index + 1] THEN reject_incorrect(b, index, move)
        ELSE apply_correct(b, index, sol, move)

Last(op, inp, acc, msg, n) ==
    [op |-> op, input |-> inp, accepted |-> acc, message |-> msg, rejects_before |-> n]

NoFen == Fen([s \in Squares |-> Empty], "w")
NoRecord == [fen |-> NoFen, moves |-> <<>>]

\* The rejected submissions made in a row up to now, capped at MaxRejects.
RejectsSoFar ==
    IF v_last.op = "validate_move" /\ ~v_last.accepted
    THEN IF v_last.rejects_before + 1 <= MaxRejects
         THEN v_last.rejects_before + 1 ELSE MaxRejects
    ELSE 0

\* MoveValidator(pz): _setup_board reads moves[0] (IndexError on an empty
\* list), converts it with chess.Move.from_uci (ValueError when source and
\* destination are the same square) and pushes it (push asserts only that a
\* piece stands on the source square); no other check is made.  A raised
\* exception leaves no validator.
ConstructionRaises(pz) ==
    \/ Len(pz.moves) = 0
    \/ pz.moves[1][1] = pz.moves[1][2]
    \/ Board(pz.fen).pieces[pz.moves[1][1]] = Empty

Construct(pz) ==
    /\ v_state = "none"
    /\ puzzle' = pz
    /\ IF ConstructionRaises(pz)
       THEN /\ v_state' = "failed"
            /\ v_last' = Last("init_failed", NoInput, FALSE, "", 0)
            /\ UNCHANGED <<board, solution_moves, current_move_index>>
       ELSE /\ board' = setup_board(pz)
            /\ solution_moves' = Puzzle_solution_moves(pz.moves)
            /\ current_move_index' = 0
            /\ v_state' = "active"
            /\ v_last' = Last("init", NoInput, FALSE, "", 0)
    /\ UNCHANGED <<sel_vars, mgr_vars>>

\* MoveValidator(puzzle) for the puzzle records of the store.
MoveValidator_init == \E pz \in Puzzles : Construct(pz)

\* Records as a damaged import can hold them: no move at all, the setup
\* move alone, or a setup move that is not legal in the record's position
\* (a move of the side not to move, a move the piece cannot make, a move
\* from an empty square, a move to its own square), followed by one move
\* playable after it.
CorruptPuzzles ==
    UNION { {[fen |-> f, moves |-> <<>>]}
            \cup { [fen |-> f, moves |-> <<m>>] : m \in legal_moves(Board(f)) }
            \cup UNION { { [fen |-> f, moves |-> <<x, y>>] :
                             y \in legal_moves(push(Board(f), x)) } :
                         x \in { z \in Moves \cup { Move(q, q) : q \in Squares } :
                                   /\ z \notin legal_moves(Board(f))
                                   /\ (z[1] = z[2] \/ Board(f).pieces[z[1]] = Empty
                                         \/ z[2] \in Reach(TypeOf(Board(f).pieces[z[1]]), z[1])
                                         \/ z[2] = z[1] + 3) } }
            \cup { [fen |-> f, moves |-> <<x>>] :
                     x \in { z \in Moves : Board(f).pieces[z[1]] = Empty /\ z[2] = z[1] + 1 } }
          : f \in Fens }

\* MoveValidator(puzzle) for any record, damaged ones included.
MoveValidator_init_any == \E pz \in Puzzles \cup CorruptPuzzles : Construct(pz)

\* validator.validate_move(user_input)
validate_move ==
    /\ v_state = "active"
    /\ \E inp \in Inputs :
          \E r \in {validate_move_result(board, current_move_index, solution_moves, inp)} :
              /\ board' = r.board
              /\ current_move_index' = r.index
              /\ v_last' = Last("validate_move", inp, r.accepted, r.message, RejectsSoFar)
    /\ UNCHANGED <<v_state, puzzle, solution_moves>>
    /\ UNCHANGED <<sel_vars, mgr_vars>>

\* A reset that rewinds the cursor and keeps the board.
reset_KeepsBoard ==
    /\ v_state = "active"
    /\ board' = board
    /\ current_move_index' = 0
    /\ v_last' = Last("reset", NoInput, FALSE, "", RejectsSoFar)
    /\ UNCHANGED <<v_state, puzzle, solution_moves>>
    /\ UNCHANGED <<sel_vars, mgr_vars>>

\* validator.reset(); the record keeps how many rejected submissions in a
\* row preceded it.
reset ==
    /\ v_state = "active"
    /\ board' = setup_board(puzzle)
    /\ current_move_index' = 0
    /\ v_last' = Last("reset", NoInput, FALSE, "", RejectsSoFar)
    /\ UNCHANGED <<v_state, puzzle, solution_moves>>
    /\ UNCHANGED <<sel_vars, mgr_vars>>

----------------------------------------------------------------------------
(* core/puzzle_manager.py: PuzzleManager.__init__ *)

\* HintSystem(board, solution_move_uci)
HintSystem(b, m) == [board |-> b, solution_move |-> m, current_level |-> 0]

\* hint_system = None
NoHintSystem == [board |-> Board(NoFen), solution_move |-> NullMove, current_level |-> -1]

\* What a manager call was and returned: the operation, its quit_early
\* argument, the message or kind of result, and the level of a hint.
MLast(op, q, ret, lvl) == [op |-> op, quit_early |-> q, ret |-> ret, level |-> lvl]

\* UserProgress (success_rate, a quotient of two of these counts, and the
\* per-difficulty breakdown are left out).
UserProgress(ts, ta, cs, bs, sp) ==
    [total_solved |-> ts, total_attempts |-> ta, current_streak |-> cs,
     best_streak |-> bs, solved_puzzles |-> sp]

NoStats == UserProgress(0, 0, 0, 0, {})

\* PuzzleManager.__init__ with a new progress file: no entry, no attempt.
MgrIdle ==
    /\ stats = NoStats
    /\ entries = <<>>
    /\ current_puzzle = NoPuzzle
    /\ move_attempts = 0
    /\ hints_used = 0
    /\ hint_system = NoHintSystem
    /\ timer = 0
    /\ starts = 0
    /\ m_last = MLast("none", FALSE, "", 0)

----------------------------------------------------------------------------
(* Specifications *)

ValIdle ==
    /\ v_state = "none"
    /\ puzzle = NoRecord
    /\ board = Board(NoFen)
    /\ solution_moves = <<>>
    /\ current_move_index = 0
    /\ v_last = Last("none", NoInput, FALSE, "", 0)

SelIdle ==
    /\ sel_pc = "idle"
    /\ sel_args = NoArgs
    /\ sel_puzzle = NoPuzzle
    /\ sel_tier = 0

\* The selector over every store of at most MaxPuzzles puzzles.
SelInit ==
    /\ store \in { StoreOf(s) : s \in Stores }
    /\ SelIdle
    /\ ValIdle
    /\ MgrIdle

SelNext ==
    \/ select_puzzle
    \/ SkipQuery
    \/ QueryValueError
    \/ QueryHit
    \/ QueryMiss
    \/ SelectReturn

SelSpec == SelInit /\ [][SelNext]_vars

\* One validator over every puzzle record.
ValInit ==
    /\ store = <<>>
    /\ SelIdle
    /\ ValIdle
    /\ MgrIdle

ValNext ==
    \/ MoveValidator_init
    \/ validate_move
    \/ reset

ValSpec == ValInit /\ [][ValNext]_vars

\* One validator as the command loop of the CLI drives it: constructed for
\* a puzzle, then given the user's submissions; nothing there calls reset().
PlayNext ==
    \/ MoveValidator_init
    \/ validate_move

PlaySpec == ValInit /\ [][PlayNext]_vars

\* One validator over every record, damaged ones included.
RawNext ==
    \/ MoveValidator_init_any
    \/ validate_move
    \/ reset

RawSpec == ValInit /\ [][RawNext]_vars

----------------------------------------------------------------------------
(* PuzzleManager._rating_to_difficulty *)

rating_to_difficulty(rating) ==
    IF rating < 1200 THEN 1
    ELSE IF rating < 1600 THEN 2
    ELSE IF rating < 2000 THEN 3
    ELSE IF rating < 2400 THEN 4
    ELSE 5

----------------------------------------------------------------------------
(* Properties of the selector *)

\* The request's constraints as the data model states them, per puzzle:
\* the level's interval with inclusive lower and exclusive upper bound (the
\* top level keeps its upper bound), and the phase predicates over the
\* puzzle's whole theme set.
InInterval(d, p) ==
    /\ Difficulty[d][1] <= p.rating
    /\ IF d = 5 THEN p.rating <= Difficulty[d][2] ELSE p.rating < Difficulty[d][2]

PhasePredicate(phase, p) ==
    CASE phase = "opening" ->
            p.opening_tags # "" \/ p.themes \cap OPENING_THEMES # {}
      [] phase = "endgame" ->
            p.piece_count < ENDGAME_PIECE_THRESHOLD \/ p.themes \cap ENDGAME_THEMES # {}
      [] phase = "middlegame" ->
            p.piece_count >= ENDGAME_PIECE_THRESHOLD /\ p.themes \cap ENDGAME_THEMES = {}
      [] OTHER -> TRUE

HasTheme(theme, p) == theme = NoTheme \/ theme \in p.themes

Phases == {"opening", "middlegame", "endgame"}

\* The cascade as an ordered list of query specifications.
QSpec(d, ph, th, ex) == [difficulty |-> d, game_phase |-> ph, theme |-> th, exclude |-> ex]

Cascade(a) ==
    <<QSpec(a.difficulty, a.game_phase, a.theme, TRUE),
      QSpec(a.difficulty, a.game_phase, a.theme, FALSE)>>
    \o (IF a.difficulty - 1 >= 1
        THEN <<QSpec(a.difficulty - 1, a.game_phase, a.theme, FALSE)>> ELSE <<>>)
    \o (IF a.difficulty + 1 <= 5
        THEN <<QSpec(a.difficulty + 1, a.game_phase, a.theme, FALSE)>> ELSE <<>>)
    \o <<QSpec(a.difficulty, NoPhase, a.theme, FALSE)>>
    \o (IF a.theme # NoTheme
        THEN <<QSpec(a.difficulty, a.game_phase, NoTheme, FALSE)>> ELSE <<>>)
    \o <<QSpec(NoPuzzle, NoPhase, NoTheme, FALSE)>>

MatchSet(q, solved) ==
    query_puzzle(q.difficulty, q.game_phase, solved, q.exclude, q.theme)

\* C1: with a difficulty in 1..5 and a store holding at least one puzzle,
\* select_puzzle never ends in PuzzleNotFoundError (nor in any other error):
\* the error is raised only on an empty store.
C1_NotFoundOnlyOnEmptyStore ==
    (sel_args.difficulty \in 1..5 /\ Ids # {})
        => sel_pc \notin {"not_found", "value_error"}

\* C1 witness: a call on a non-empty store fell through to the unconstrained
\* last query and got its puzzle there.
C1_Witness ==
    /\ sel_pc = "returned"
    /\ sel_tier = 6
    /\ sel_args.theme # NoTheme
    /\ sel_args.solved # {}

C3_ExcludedOnlyWhenNoFreshMatch ==
    (sel_pc = "returned" /\ sel_args.difficulty \in 1..5) =>
        /\ sel_puzzle \in sel_args.solved =>
              MatchSet(Cascade(sel_args)[1], sel_args.solved) = {}
        /\ (\E id \in Ids \ sel_args.solved :
                /\ InInterval(sel_args.difficulty, store[id])
                /\ PhasePredicate(sel_args.game_phase, store[id])
                /\ HasTheme(sel_args.theme, store[id]))
              => sel_puzzle \notin sel_args.solved

\* C4 (as claimed): when every puzzle of the requested difficulty is
\* excluded and a non-excluded puzzle that meets the request's phase and
\* theme exists at an adjacent difficulty, select_puzzle falls back to the
\* adjacent difficulty: the returned puzzle is of an adjacent difficulty
\* and is not an excluded one.
C4_NoveltyBeforeDifficulty ==
    LET d == sel_args.difficulty
        Adjacent(id) == \E e \in {d - 1, d + 1} \cap (1..5) : InInterval(e, store[id])
    IN  ( /\ sel_pc = "returned"
          /\ d \in 1..5
          /\ \A id \in Ids : InInterval(d, store[id]) => id \in sel_args.solved
          /\ \E id \in Ids \ sel_args.solved :
                /\ Adjacent(id)
                /\ PhasePredicate(sel_args.game_phase, store[id])
                /\ HasTheme(sel_args.theme, store[id]) )
        => (sel_puzzle \notin sel_args.solved /\ Adjacent(sel_puzzle))

\* C5 (as claimed): with a difficulty and a phase and no theme, if some
\* puzzle lies in the level's interval and satisfies the phase predicate,
\* the returned puzzle comes from the first or second query and itself lies
\* in the interval and satisfies the phase predicate.
C5_ExactTiersReturnBoth ==
    LET d == sel_args.difficulty
        Both(id) == InInterval(d, store[id]) /\ PhasePredicate(sel_args.game_phase, store[id])
    IN  ( /\ sel_pc = "returned"
          /\ d \in 1..5
          /\ sel_args.game_phase \in Phases
          /\ sel_args.theme = NoTheme
          /\ \E id \in Ids : Both(id) )
        => (sel_tier \in {1, 2} /\ Both(sel_puzzle))

\* C6 (as claimed): the selector's rating filter and the rating-to-bucket
\* derivation agree at every boundary: a puzzle returned by the exact
\* queries for difficulty d has the rating-derived bucket d.
C6_ExactTierMatchesBucket ==
    (sel_pc = "returned" /\ sel_tier \in {1, 2})
        => rating_to_difficulty(store[sel_puzzle].rating) = sel_args.difficulty

----------------------------------------------------------------------------
(* Properties of the move validator *)

\* The legal moves an input names in position b: by piece letter, optional
\* source square and destination (SAN), or by source and destination square
\* (coordinate notation); the null move and other text name none.
Names(b, inp) ==
    { m \in legal_moves(b) :
        \/ /\ inp.kind = "san"
           /\ TypeOf(b.pieces[m[1]]) = inp.piece
           /\ m[2] = inp.to
           /\ inp.from \in {0, m[1]}
        \/ /\ inp.kind = "uci"
           /\ m = <<inp.from, inp.to>> }

Complete == current_move_index >= Len(solution_moves)

\* The move the player has to find (only where the validator is not complete).
Expected == solution_moves[current_move_index + 1]

\* This step is a validate_move call.
Submitted == v_state = "active" /\ v_last'.op = "validate_move"

\* C7: a submission that is not the expected move (unparseable, illegal, or
\* a legal move other than solution_moves[cursor]) is rejected and leaves
\* the cursor and the board as they were, the validator still not complete;
\* and after any number of rejected submissions in a row the expected move
\* is accepted.
C7_RejectionChangesNothing ==
    [][ (Submitted /\ ~Complete) =>
            \E named \in {Names(board, v_last'.input)} :
                /\ named # {Expected} =>
                      /\ ~v_last'.accepted
                      /\ current_move_index' = current_move_index
                      /\ board' = board
                      /\ current_move_index' < Len(solution_moves')
                /\ (named = {Expected} /\ v_last'.rejects_before >= 1) =>
                      v_last'.accepted ]_vars

\* C7 witness: the expected move accepted right after MaxRejects (or more)
\* rejected submissions in a row.
C7_Witness ==
    /\ v_last.op = "validate_move"
    /\ v_last.accepted
    /\ v_last.rejects_before = MaxRejects

----------------------------------------------------------------------------
(* Notations of a move *)

\* board.san(move): piece letter and destination, with the source square
\* only when another piece of the same type could also go there.
san(b, m) ==
    LET ty == TypeOf(b.pieces[m[1]])
    IN  IF Cardinality(SanCandidates(b, Input("san", ty, 0, m[2]))) = 1
        THEN Input("san", ty, 0, m[2])
        ELSE Input("san", ty, m[1], m[2])

\* move.uci(): source and destination square.
uci(m) == Input("uci", Empty, m[1], m[2])

\* What a submission reports and leaves, as the caller can observe it.
Outcome(r, sol) ==
    [accepted |-> r.accepted, index |-> r.index, complete |-> is_complete(r.index, sol),
     pieces |-> r.board.pieces, turn |-> r.board.turn]

\* C11: from every validator state and for every move legal in its position,
\* submitting the move in SAN and submitting it in coordinate notation give
\* the same accepted value, cursor, completion status and position; with
\* exactly one solution move, both notations of it are accepted and complete
\* the puzzle.
C11_SanAndUciAgree ==
    v_state = "active" =>
        \A m \in legal_moves(board) :
            \E rs \in {validate_move_result(board, current_move_index, solution_moves, san(board, m))} :
            \E ru \in {validate_move_result(board, current_move_index, solution_moves, uci(m))} :
                /\ Outcome(rs, solution_moves) = Outcome(ru, solution_moves)
                /\ (Len(solution_moves) = 1 /\ current_move_index = 0 /\ m = solution_moves[1])
                      => (rs.accepted /\ ru.accepted
                          /\ is_complete(rs.index, solution_moves)
                          /\ is_complete(ru.index, solution_moves))

\* C11 witness: the one solution move of a puzzle was submitted in
\* coordinate notation and accepted, its SAN needing the source square.
C11_Witness ==
    /\ v_state = "active"
    /\ Len(solution_moves) = 1
    /\ v_last.op = "validate_move"
    /\ v_last.input.kind = "uci"
    /\ v_last.accepted
    /\ Complete
    /\ san(setup_board(puzzle), solution_moves[1]).from # 0

\* A record is well formed when it has the setup move and at least one
\* solution move and the setup move is legal in the record's position.
WellFormed(pz) ==
    /\ Len(pz.moves) >= 2
    /\ pz.moves[1] \in legal_moves(Board(pz.fen))

\* C12 (as claimed): construction fails for a record with fewer than two
\* moves or with a setup move illegal in its own position: no validator
\* exists for such a record and no validate_move result is ever produced
\* for it.
C12_CorruptDataFailsAtConstruction ==
    (v_state = "active" \/ v_last.op = "validate_move") => WellFormed(puzzle)

\* C13: in every validator state get_current_solution_move() is
\* solution_moves[cursor] when the validator is not complete and None
\* exactly when is_complete() is true, and get_moves_remaining() is
\* len(solution_moves) - cursor, which is 0 exactly when is_complete() is
\* true.
C13_ObserversAgreeWithCursor ==
    v_state = "active" =>
        LET done == is_complete(current_move_index, solution_moves)
            cur  == get_current_solution_move(current_move_index, solution_moves)
            rem  == get_moves_remaining(current_move_index, solution_moves)
        IN  /\ ~done => cur = solution_moves[current_move_index + 1]
            /\ done <=> cur = NoMove
            /\ rem = Len(solution_moves) - current_move_index
            /\ done <=> rem = 0

\* C13 witness: a validator that has taken a correct move and its reply and
\* still has a move to find.
C13_Witness ==
    /\ v_state = "active"
    /\ current_move_index = 2
    /\ get_moves_remaining(current_move_index, solution_moves) = 1
    /\ get_current_solution_move(current_move_index, solution_moves) = puzzle.moves[4]

\* C14: whatever validate_move calls came before (accepted, rejected, made
\* after completion), reset() leaves the validator as construction left it:
\* the board is the record's position with moves[0] applied and nothing
\* else, the cursor is 0, the solution is moves[1:].
C14_ResetRestoresConstruction ==
    [][ (v_state = "active" /\ v_last'.op = "reset") =>
            /\ board' = push([pieces |-> puzzle.fen.pieces, turn |-> puzzle.fen.turn,
                              stack |-> <<>>], puzzle.moves[1])
            /\ current_move_index' = 0
            /\ solution_moves' = SubSeq(puzzle.moves, 2, Len(puzzle.moves))
            /\ puzzle' = puzzle
            /\ ~is_complete(current_move_index', solution_moves') ]_vars

\* C14 witness: a reset made after rejected submissions on a three-move
\* solution.
C14_Witness ==
    /\ v_last.op = "reset"
    /\ v_last.rejects_before >= 1
    /\ Len(solution_moves) = 3
    /\ current_move_index = 0
    /\ Len(board.stack) = 1

----------------------------------------------------------------------------
(* core/puzzle_manager.py: PuzzleManager over a library of two puzzles *)

\* Cap of the start_puzzle calls of one run.
MaxStarts == 2

\* Cap of the entries of the progress log.
MaxLog == 1

\* Cap of the validate_move calls counted in one attempt.
MaxAttempts == 2

\* Cap of the get_hint calls counted in one attempt.
MaxHintCalls == 1

\* The puzzles of the manager's database: the row of the puzzles table and
\* the record the validator gets.  Puzzle 1 has one solution move, puzzle 2
\* three.
Library ==
    << [row   |-> Row(1100, 8, "", {}),
        fen   |-> Fen(<<"bN", "wN", "wK", "--", "bK", "wN">>, "w"),
        moves |-> <<Move(3, 4), Move(1, 3)>>],
       [row   |-> Row(1200, 12, "", {"fork"}),
        fen   |-> Fen(<<"bN", "wN", "wK", "--", "bK", "wN">>, "w"),
        moves |-> <<Move(3, 4), Move(5, 6), Move(4, 5), Move(1, 3)>>] >>

\* _row_to_puzzle: the Puzzle object of a row.
PuzzleOf(id) == [fen |-> Library[id].fen, moves |-> Library[id].moves]

\* select_puzzle as a whole: the puzzles the first query with a match can
\* return (none when every query is empty).
select_result(a) ==
    LET c == Cascade(a)
        hits == { k \in 1..Len(c) : MatchSet(c[k], a.solved) # {} }
    IN  IF hits = {} THEN {}
        ELSE MatchSet(c[CHOOSE k \in hits : \A j \in hits : k <= j], a.solved)

\* ProgressTracker.get_solved_puzzle_ids
get_solved_puzzle_ids(log) == { log[i].puzzle_id : i \in { j \in 1..Len(log) : log[j].solved } }

\* ProgressEntry (time_taken and timestamp are wall-clock values and are
\* left out).
ProgressEntry(id, solved, attempts, difficulty, hints) ==
    [puzzle_id |-> id, solved |-> solved, attempts |-> attempts,
     difficulty |-> difficulty, hints_used |-> hints]

\* What the user can ask for when starting a puzzle.
MgrDifficulties == {1, 2}
MgrPhases == {"middlegame", "endgame"}

\* What the user types as a move: the two moves Black has after the setup
\* move (the knight move also in SAN), a move that is not legal, and text
\* that is no move.
MgrInputs ==
    { Input("uci", Empty, 1, 3), Input("san", "N", 0, 3), Input("uci", Empty, 5, 6),
      Input("uci", Empty, 1, 2), Input("text", Empty, 0, 0) }

\* manager.start_puzzle(difficulty, game_phase, theme=None, timer_config):
\* per-attempt state is overwritten; the hint system only when the
\* validator has a move to find, the timer only when one is configured.
\* (When select_puzzle raises, the exception leaves the manager unchanged.)
start_puzzle_upto(cap) ==
    /\ starts < cap
    /\ \E difficulty \in MgrDifficulties, game_phase \in MgrPhases, timer_enabled \in BOOLEAN :
       \E id \in select_result([difficulty |-> difficulty, game_phase |-> game_phase,
                                theme |-> NoTheme,
                                solved |-> get_solved_puzzle_ids(entries)]) :
       \E b \in {setup_board(PuzzleOf(id))} :
       \E sol \in {Puzzle_solution_moves(PuzzleOf(id).moves)} :
          /\ current_puzzle' = id
          /\ v_state' = "active"
          /\ puzzle' = PuzzleOf(id)
          /\ board' = b
          /\ solution_moves' = sol
          /\ current_move_index' = 0
          /\ v_last' = Last("init", NoInput, FALSE, "", 0)
          /\ move_attempts' = 0
          /\ hints_used' = 0
          /\ hint_system' = IF get_current_solution_move(0, sol) # NoMove
                            THEN HintSystem(b, get_current_solution_move(0, sol))
                            ELSE hint_system
          /\ timer' = IF timer_enabled THEN starts + 1 ELSE timer
          /\ starts' = starts + 1
          /\ m_last' = MLast("start_puzzle", FALSE, "puzzle", 0)
    /\ UNCHANGED <<entries, stats, sel_vars>>

\* start_puzzle, at most MaxStarts times in one run.
start_puzzle == start_puzzle_upto(MaxStarts)

\* A manager.validate_move that leaves the hint system as it is.
Manager_validate_move_KeepsHints ==
    IF v_state # "active"
    THEN /\ m_last' = MLast("validate_move", FALSE, "No active puzzle", 0)
         /\ UNCHANGED <<sel_vars, val_vars, entries, current_puzzle, move_attempts,
                        hints_used, hint_system, timer, starts, stats>>
    ELSE /\ move_attempts < MaxAttempts
         /\ \E inp \in MgrInputs :
            \E r \in {validate_move_result(board, current_move_index, solution_moves, inp)} :
               /\ move_attempts' = move_attempts + 1
               /\ board' = r.board
               /\ current_move_index' = r.index
               /\ v_last' = Last("validate_move", inp, r.accepted, r.message, RejectsSoFar)
               /\ m_last' = MLast("validate_move", FALSE, r.message, 0)
         /\ UNCHANGED <<sel_vars, v_state, puzzle, solution_moves, entries, current_puzzle,
                        hints_used, hint_system, timer, starts, stats>>

\* A manager.validate_move that counts only the submissions turned down.
Manager_validate_move_CountsRejected ==
    IF v_state # "active"
    THEN /\ m_last' = MLast("validate_move", FALSE, "No active puzzle", 0)
         /\ UNCHANGED <<sel_vars, val_vars, entries, current_puzzle, move_attempts,
                        hints_used, hint_system, timer, starts, stats>>
    ELSE /\ move_attempts < MaxAttempts
         /\ \E inp \in MgrInputs :
            \E r \in {validate_move_result(board, current_move_index, solution_moves, inp)} :
               /\ move_attempts' = IF r.accepted THEN move_attempts ELSE move_attempts + 1
               /\ board' = r.board
               /\ current_move_index' = r.index
               /\ v_last' = Last("validate_move", inp, r.accepted, r.message, RejectsSoFar)
               /\ hint_system' =
                     IF /\ r.accepted
                        /\ ~is_complete(r.index, solution_moves)
                        /\ get_current_solution_move(r.index, solution_moves) # NoMove
                     THEN HintSystem(r.board, get_current_solution_move(r.index, solution_moves))
                     ELSE hint_system
               /\ m_last' = MLast("validate_move", FALSE, r.message, 0)
         /\ UNCHANGED <<sel_vars, v_state, puzzle, solution_moves, entries, current_puzzle,
                        hints_used, timer, starts, stats>>

\* manager.validate_move(user_input)
Manager_validate_move ==
    IF v_state # "active"
    THEN /\ m_last' = MLast("validate_move", FALSE, "No active puzzle", 0)
         /\ UNCHANGED <<sel_vars, val_vars, entries, current_puzzle, move_attempts,
                        hints_used, hint_system, timer, starts, stats>>
    ELSE /\ move_attempts < MaxAttempts
         /\ \E inp \in MgrInputs :
            \E r \in {validate_move_result(board, current_move_index, solution_moves, inp)} :
               /\ move_attempts' = move_attempts + 1
               /\ board' = r.board
               /\ current_move_index' = r.index
               /\ v_last' = Last("validate_move", inp, r.accepted, r.message, RejectsSoFar)
               /\ hint_system' =
                     IF /\ r.accepted
                        /\ ~is_complete(r.index, solution_moves)
                        /\ get_current_solution_move(r.index, solution_moves) # NoMove
                     THEN HintSystem(r.board, get_current_solution_move(r.index, solution_moves))
                     ELSE hint_system
               /\ m_last' = MLast("validate_move", FALSE, r.message, 0)
         /\ UNCHANGED <<sel_vars, v_state, puzzle, solution_moves, entries, current_puzzle,
                        hints_used, timer, starts, stats>>

\* A get_next_hint that starts over after level 4.
get_next_hint_Wraps(hs) == IF hs.current_level + 1 > 4 THEN 1 ELSE hs.current_level + 1

\* HintSystem.get_next_hint: the level after the call.
get_next_hint(hs) == IF hs.current_level + 1 > 4 THEN 4 ELSE hs.current_level + 1

\* manager.get_hint(), counted up to cap calls in one attempt.
get_hint_upto(cap) ==
    IF hint_system = NoHintSystem
    THEN /\ m_last' = MLast("get_hint", FALSE, "None", 0)
         /\ UNCHANGED <<sel_vars, val_vars, entries, current_puzzle, move_attempts,
                        hints_used, hint_system, timer, starts, stats>>
    ELSE /\ hints_used < cap
         /\ hints_used' = hints_used + 1
         /\ hint_system' = [hint_system EXCEPT !.current_level = get_next_hint(hint_system)]
         /\ m_last' = MLast("get_hint", FALSE, "hint", get_next_hint(hint_system))
         /\ UNCHANGED <<sel_vars, val_vars, entries, current_puzzle, move_attempts,
                        timer, starts, stats>>

\* manager.get_hint()
get_hint == get_hint_upto(MaxHintCalls)

\* A finish_puzzle that records and returns the results but leaves the
\* current puzzle and its validator in place.
finish_puzzle_KeepsPuzzle(quit_early) ==
    IF current_puzzle = NoPuzzle
    THEN /\ m_last' = MLast("finish_puzzle", quit_early, "{}", 0)
         /\ UNCHANGED <<sel_vars, val_vars, entries, current_puzzle, move_attempts,
                        hints_used, hint_system, timer, starts, stats>>
    ELSE /\ (~quit_early => Len(entries) < MaxLog)
         /\ entries' =
                IF ~quit_early
                THEN Append(entries,
                        ProgressEntry(current_puzzle,
                                      v_state = "active"
                                        /\ is_complete(current_move_index, solution_moves),
                                      move_attempts,
                                      rating_to_difficulty(store[current_puzzle].rating),
                                      hints_used))
                ELSE entries
         /\ hint_system' = NoHintSystem
         /\ move_attempts' = 0
         /\ hints_used' = 0
         /\ timer' = 0
         /\ m_last' = MLast("finish_puzzle", quit_early, "results", 0)
         /\ UNCHANGED <<sel_vars, val_vars, current_puzzle, starts, stats>>

\* manager.finish_puzzle(quit_early): the attempt is recorded unless
\* quit_early is set, then all per-attempt state is cleared.
finish_puzzle(quit_early) ==
    IF current_puzzle = NoPuzzle
    THEN /\ m_last' = MLast("finish_puzzle", quit_early, "{}", 0)
         /\ UNCHANGED <<sel_vars, val_vars, entries, current_puzzle, move_attempts,
                        hints_used, hint_system, timer, starts, stats>>
    ELSE /\ (~quit_early => Len(entries) < MaxLog)
         /\ entries' =
                IF ~quit_early
                THEN Append(entries,
                        ProgressEntry(current_puzzle,
                                      v_state = "active"
                                        /\ is_complete(current_move_index, solution_moves),
                                      move_attempts,
                                      rating_to_difficulty(store[current_puzzle].rating),
                                      hints_used))
                ELSE entries
         /\ current_puzzle' = NoPuzzle
         /\ v_state' = "none"
         /\ puzzle' = NoRecord
         /\ board' = Board(NoFen)
         /\ solution_moves' = <<>>
         /\ current_move_index' = 0
         /\ v_last' = Last("none", NoInput, FALSE, "", 0)
         /\ hint_system' = NoHintSystem
         /\ move_attempts' = 0
         /\ hints_used' = 0
         /\ timer' = 0
         /\ m_last' = MLast("finish_puzzle", quit_early, "results", 0)
         /\ UNCHANGED <<sel_vars, starts, stats>>

\* The command loop of the CLI ends an attempt with finish_puzzle() when the
\* puzzle is complete (or time is up) and with finish_puzzle(quit_early=True)
\* when the user types quit.
Manager_finish_puzzle == \E quit_early \in BOOLEAN : finish_puzzle(quit_early)

\* The manager on its database.
MgrInit ==
    /\ store = [i \in 1..Len(Library) |-> Library[i].row]
    /\ SelIdle
    /\ ValIdle
    /\ MgrIdle

MgrNext ==
    \/ start_puzzle
    \/ Manager_validate_move
    \/ get_hint
    \/ Manager_finish_puzzle

MgrSpec == MgrInit /\ [][MgrNext]_vars

\* C15 (as claimed): whenever a started attempt ends, by completion or by
\* the user's quit, one attempt record of that puzzle is appended to the
\* progress log.
C15_EveryEndedAttemptIsRecorded ==
    [][ (current_puzzle # NoPuzzle /\ current_puzzle' = NoPuzzle) =>
            /\ Len(entries') = Len(entries) + 1
            /\ entries'[Len(entries')].puzzle_id = current_puzzle ]_vars

----------------------------------------------------------------------------
(* core/progress_tracker.py: ProgressTracker *)

\* Cap of the entries of a progress log in the tracker's own runs.
MaxEntries == 4

\* _calculate_current_streak: walk the entries from the newest, count while
\* solved, stop at the first that is not.
RECURSIVE current_streak_loop(_, _)
current_streak_loop(log, i) ==
    IF i = 0 THEN 0
    ELSE IF log[i].solved THEN 1 + current_streak_loop(log, i - 1)
    ELSE 0

calculate_current_streak(log) == current_streak_loop(log, Len(log))

\* A best-streak loop that does not start over at an unsolved entry.
RECURSIVE best_streak_loop_NoRestart(_, _, _, _)
best_streak_loop_NoRestart(log, i, current, best) ==
    IF i > Len(log) THEN best
    ELSE IF log[i].solved
    THEN best_streak_loop_NoRestart(log, i + 1, current + 1, Max(best, current + 1))
    ELSE best_streak_loop_NoRestart(log, i + 1, current, best)

\* _calculate_best_streak: walk the entries from the oldest with a running
\* count that restarts at every unsolved entry; keep the largest count.
RECURSIVE best_streak_loop(_, _, _, _)
best_streak_loop(log, i, current, best) ==
    IF i > Len(log) THEN best
    ELSE IF log[i].solved
    THEN best_streak_loop(log, i + 1, current + 1, Max(best, current + 1))
    ELSE best_streak_loop(log, i + 1, 0, best)

calculate_best_streak(log) == best_streak_loop(log, 1, 0, 0)

\* tracker.record_attempt(...): append and save.
record_attempt ==
    /\ Len(entries) < MaxEntries
    /\ \E id \in {1, 2}, solved \in BOOLEAN :
          entries' = Append(entries, ProgressEntry(id, solved, 1, 1, 0))
    /\ m_last' = MLast("record_attempt", FALSE, "None", 0)
    /\ UNCHANGED <<sel_vars, val_vars, current_puzzle, move_attempts, hints_used,
                   hint_system, timer, starts, stats>>

\* tracker.get_statistics()
get_statistics ==
    /\ stats' = UserProgress(
                    Cardinality({ i \in 1..Len(entries) : entries[i].solved }),
                    Len(entries),
                    calculate_current_streak(entries),
                    calculate_best_streak(entries),
                    get_solved_puzzle_ids(entries))
    /\ m_last' = MLast("get_statistics", FALSE, "UserProgress", 0)
    /\ UNCHANGED <<sel_vars, val_vars, entries, current_puzzle, move_attempts, hints_used,
                   hint_system, timer, starts>>

TrackerNext ==
    \/ record_attempt
    \/ get_statistics

\* The tracker alone, from an empty progress file.
TrackerSpec == ValInit /\ [][TrackerNext]_vars

\* The entries a..b of the log are all solved.
AllSolved(log, a, b) == \A j \in a..b : log[j].solved

\* C16: the statistics report as current_streak the length of the longest
\* suffix of the log whose entries are all solved (0 for an empty log or an
\* unsolved last entry) and as best_streak the length of the longest
\* contiguous run of solved entries anywhere in the log, in append order.
C16_StreaksAreTrailingAndLongestRun ==
    m_last.op = "get_statistics" =>
        LET n == Len(entries)
            suffixes == { k \in 0..n : AllSolved(entries, n - k + 1, n) }
            runs == { x \in 0..n : x = 0 \/ \E a \in 1..(n - x + 1) :
                                                 AllSolved(entries, a, a + x - 1) }
        IN  /\ stats.current_streak \in suffixes
            /\ \A k \in suffixes : k <= stats.current_streak
            /\ stats.best_streak \in runs
            /\ \A x \in runs : x <= stats.best_streak

\* C16 witness: a log whose best run (2) lies before an unsolved entry and
\* whose current streak (1) is shorter.
C16_Witness ==
    /\ m_last.op = "get_statistics"
    /\ Len(entries) = 4
    /\ ~entries[3].solved
    /\ stats.best_streak = 2
    /\ stats.current_streak = 1

----------------------------------------------------------------------------
(* Properties of the phase filters *)

\* The queries of the cascade that keep the requested phase.
PhaseTiers == {1, 2, 3, 5}

\* C17 (as claimed): a puzzle returned for phase 'middlegame' by a query that
\* keeps the phase has at least 12 pieces and no theme at all among the
\* endgame themes.
C17_MiddlegameHasNoEndgameTheme ==
    (sel_pc = "returned" /\ sel_args.game_phase = "middlegame" /\ sel_tier \in PhaseTiers)
        => /\ store[sel_puzzle].piece_count >= 12
           /\ store[sel_puzzle].themes \cap ENDGAME_THEMES = {}

C19_InvalidDifficultyHandled ==
    sel_args.difficulty \notin 1..5 => sel_pc # "value_error"

\* A puzzle meets a request when its rating lies in the level's interval, it
\* satisfies the phase predicate and its theme set holds the requested theme.
Qualifies(a, id) ==
    /\ InInterval(a.difficulty, store[id])
    /\ PhasePredicate(a.game_phase, store[id])
    /\ HasTheme(a.theme, store[id])

\* C20 (as claimed, its first half): when a phase and a theme are requested
\* and the store holds a non-excluded puzzle that meets the request (its
\* rating in the level's interval, the phase predicate true, the theme among
\* its themes, whichever of its themes makes the phase predicate true), the
\* exact query finds a match, so the puzzle returned comes from the exact
\* query.  (The claim goes on to say that the returned puzzle meets the
\* request as well.)
C20_ExactTierFindsQualifyingPuzzle ==
    ( /\ sel_pc = "returned"
      /\ sel_args.difficulty \in 1..5
      /\ sel_args.game_phase \in Phases
      /\ sel_args.theme # NoTheme
      /\ \E id \in Ids \ sel_args.solved : Qualifies(sel_args, id) )
    => sel_tier = 1

----------------------------------------------------------------------------
(* Invariants of the validator *)

\* C21: in every reachable validator state that is not complete the cursor
\* is even (it indexes a move of the player, never a reply of the opponent)
\* and the side to move on the board is the side that was to move right
\* after the setup move.
C21_ParkedOnPlayerTurn ==
    (v_state = "active" /\ ~is_complete(current_move_index, solution_moves)) =>
        /\ current_move_index % 2 = 0
        /\ board.turn = setup_board(puzzle).turn
        /\ board.turn = Other(puzzle.fen.turn)

\* C21 witness: a validator past the first exchange, its last submission
\* rejected, still waiting for the player's second move.
C21_Witness ==
    /\ v_state = "active"
    /\ v_last.op = "validate_move"
    /\ ~v_last.accepted
    /\ current_move_index = 2
    /\ ~is_complete(current_move_index, solution_moves)
    /\ Len(board.stack) = 3

\* The position after the moves ms are played in turn from position b.
RECURSIVE Replay(_, _)
Replay(b, ms) ==
    IF ms = <<>> THEN b ELSE Replay(push(b, Head(ms)), Tail(ms))

C23_NoSolutionLeakOnRejection ==
    (v_state = "active" /\ ~is_complete(current_move_index, solution_moves)) =>
        \A m \in legal_moves(board), e \in legal_moves(board) :
            (m # solution_moves[current_move_index + 1] /\ m # e) =>
                \A inp \in {san(board, m), uci(m)} :
                    \E r1 \in {validate_move_result(board, current_move_index,
                                                     solution_moves, inp)} :
                    \E r2 \in {validate_move_result(board, current_move_index,
                                    [solution_moves EXCEPT ![current_move_index + 1] = e],
                                    inp)} :
                        /\ ~r1.accepted
                        /\ ~r2.accepted
                        /\ r1.message = r2.message
                        /\ r1.message = MsgIncorrect
                        /\ r1.board = r2.board
                        /\ r1.index = r2.index

\* C23 witness: a wrong legal move was rejected in a position where the
\* expected move could have been any of two or more other moves, one of
\* them ending on each half of the board.
C23_Witness ==
    /\ v_state = "active"
    /\ v_last.op = "validate_move"
    /\ v_last.message = MsgIncorrect
    /\ ~is_complete(current_move_index, solution_moves)
    /\ \E e1, e2 \in legal_moves(board) \ Names(board, v_last.input) :
          e1[2] <= 3 /\ e2[2] > 3

----------------------------------------------------------------------------
(* core/hint_system.py: HintSystem on its own *)

\* Cap of the get_next_hint calls made on one hint system.
MaxHintRequests == 5

\* The level arguments get_hint is called with.
HintLevels == -1..6

\* Hint(level, message, reveal_data), by the most specific item revealed.
Hint(l, what) == [level |-> l, reveals |-> what]

\* HintSystem.get_hint(level): a level-4 hint when no piece stands on the
\* source square of the move; else by level, every level other than 1, 2, 3
\* taking the last branch.
HintSystem_get_hint(hs, level) ==
    IF hs.board.pieces[hs.solution_move[1]] = Empty THEN Hint(4, "move")
    ELSE IF level = 1 THEN Hint(1, "piece_type")
    ELSE IF level = 2 THEN Hint(2, "from_square")
    ELSE IF level = 3 THEN Hint(3, "to_square")
    ELSE Hint(4, "move")

\* The positions and expected moves the manager builds a hint system for:
\* a puzzle's position with the player to move, and the move to find there.
HintTargets ==
    UNION { { [board |-> Replay(Board(pz.fen), SubSeq(pz.moves, 1, k + 1)),
               move  |-> pz.moves[k + 2]] :
                 k \in { j \in 0..(Len(pz.moves) - 2) : j % 2 = 0 } } : pz \in Puzzles }

\* HintSystem(board, solution_move_uci)
HintSystem_init ==
    /\ hint_system = NoHintSystem
    /\ \E tg \in HintTargets : hint_system' = HintSystem(tg.board, tg.move)
    /\ hints_used' = 0
    /\ m_last' = MLast("HintSystem", FALSE, "", 0)
    /\ UNCHANGED <<sel_vars, val_vars, entries, current_puzzle, move_attempts,
                   timer, starts, stats>>

\* hint_system.get_next_hint(); hints_used counts the calls made on this
\* hint system.
HintSystem_get_next_hint ==
    /\ hint_system # NoHintSystem
    /\ hints_used < MaxHintRequests
    /\ \E l \in {get_next_hint(hint_system)} :
       \E h \in {HintSystem_get_hint(hint_system, l)} :
          /\ hint_system' = [hint_system EXCEPT !.current_level = l]
          /\ m_last' = MLast("HintSystem.get_next_hint", FALSE, h.reveals, h.level)
    /\ hints_used' = hints_used + 1
    /\ UNCHANGED <<sel_vars, val_vars, entries, current_puzzle, move_attempts,
                   timer, starts, stats>>

\* hint_system.get_hint(level), called directly.
HintSystem_get_hint_call ==
    /\ hint_system # NoHintSystem
    /\ \E level \in HintLevels :
       \E h \in {HintSystem_get_hint(hint_system, level)} :
          m_last' = MLast("HintSystem.get_hint", FALSE, h.reveals, h.level)
    /\ UNCHANGED <<sel_vars, val_vars, entries, current_puzzle, move_attempts,
                   hints_used, hint_system, timer, starts, stats>>

HintNext ==
    \/ HintSystem_init
    \/ HintSystem_get_next_hint
    \/ HintSystem_get_hint_call

\* One hint system, asked for hints.
HintSpec == ValInit /\ [][HintNext]_vars

\* C24: the k-th call of get_next_hint() on one hint system returns the
\* hint of level min(k, 4): piece type, source square, destination square,
\* full move, in this order, no level skipped, none coming back, level 4 for
\* every further request; and get_hint called with a level outside 1..4
\* returns a hint whose level is within 1..4.
C24_HintLevelsInOrder ==
    /\ [](m_last.op = "HintSystem.get_next_hint" =>
            /\ m_last.level = (IF hints_used <= 4 THEN hints_used ELSE 4)
            /\ m_last.ret = <<"piece_type", "from_square", "to_square", "move">>[m_last.level]
            /\ hint_system.current_level = m_last.level)
    /\ [](hint_system # NoHintSystem =>
            \A level \in HintLevels :
                /\ HintSystem_get_hint(hint_system, level).level \in 1..4
                /\ level \in 1..4 => HintSystem_get_hint(hint_system, level).level = level)
    /\ [][ m_last'.op = "HintSystem.get_next_hint" =>
              /\ hint_system.current_level < 4 =>
                    hint_system'.current_level = hint_system.current_level + 1
              /\ hint_system.current_level = 4 => hint_system'.current_level = 4 ]_vars

\* C24 witness: the fifth request on one hint system, answered with the
\* full move again.
C24_Witness ==
    /\ m_last.op = "HintSystem.get_next_hint"
    /\ hints_used = 5
    /\ m_last.level = 4
    /\ m_last.ret = "move"

----------------------------------------------------------------------------
(* Completion *)

\* C25: complete is absorbing.  From a state where is_complete() is true,
\* every step other than reset() leaves it true, and a validate_move call,
\* whatever its input, returns accepted = false and changes neither the
\* cursor nor the board.
C25_CompleteIsAbsorbing ==
    [][ (v_state = "active" /\ is_complete(current_move_index, solution_moves)
            /\ v_last'.op # "reset") =>
            /\ is_complete(current_move_index', solution_moves')
            /\ v_last'.op = "validate_move" =>
                  /\ ~v_last'.accepted
                  /\ current_move_index' = current_move_index
                  /\ board' = board ]_vars

\* C25 witness: a legal move submitted to a completed validator, after
\* another submission had already been turned down there.
C25_Witness ==
    /\ v_state = "active"
    /\ is_complete(current_move_index, solution_moves)
    /\ Len(solution_moves) >= 1
    /\ v_last.op = "validate_move"
    /\ v_last.message = MsgComplete
    /\ v_last.rejects_before >= 1

\* The submissions a player needs from state (b, index) when submitting
\* get_current_solution_move() at each turn; negative if one of them is
\* turned down.
RECURSIVE SubmissionsToFinish(_, _, _)
SubmissionsToFinish(b, index, sol) ==
    IF is_complete(index, sol) THEN 0
    ELSE LET r == validate_move_result(b, index, sol,
                                       uci(get_current_solution_move(index, sol)))
         IN  IF r.accepted THEN 1 + SubmissionsToFinish(r.board, r.index, sol)
             ELSE -100

----------------------------------------------------------------------------
(* Properties of the manager's per-attempt state *)

\* C27: under any sequence of start_puzzle, validate_move and get_hint,
\* whenever a puzzle is active and not complete the hint system's target is
\* the validator's expected move and the hint system's board is the
\* validator's position; and after each accepted move that does not end the
\* puzzle the hint level is back at 0, so that the next hint requested is
\* the level-1 hint for the new expected move.
C27_HintSystemFollowsValidator ==
    /\ []((current_puzzle # NoPuzzle /\ v_state = "active"
              /\ ~is_complete(current_move_index, solution_moves)) =>
            /\ hint_system # NoHintSystem
            /\ hint_system.solution_move
                  = get_current_solution_move(current_move_index, solution_moves)
            /\ hint_system.board = board)
    /\ [][ (m_last'.op = "validate_move" /\ v_state = "active" /\ v_last'.accepted
              /\ ~is_complete(current_move_index', solution_moves')) =>
              /\ hint_system'.current_level = 0
              /\ get_next_hint(hint_system') = 1
              /\ HintSystem_get_hint(hint_system', get_next_hint(hint_system')).level = 1
              /\ hint_system'.solution_move = solution_moves'[current_move_index' + 1] ]_vars

\* C27 witness: a hint was taken for the first move, the move was then
\* accepted with the puzzle going on, and the hint system is at level 0 for
\* the next expected move.
C27_Witness ==
    /\ current_puzzle # NoPuzzle
    /\ m_last.op = "validate_move"
    /\ v_last.accepted
    /\ current_move_index = 2
    /\ ~is_complete(current_move_index, solution_moves)
    /\ hints_used >= 1
    /\ hint_system.current_level = 0
    /\ hint_system.solution_move = solution_moves[3]

\* C28 (as claimed): after start_puzzle returns, all per-attempt state
\* belongs to the new attempt, also when the attempt before was never
\* finished: move_attempts and hints_used are 0, the validator and the hint
\* system are those of the new puzzle at its first move, and the timer is
\* the one started by this call or absent; no timer and no hint system of a
\* superseded attempt is left.
C28_StartPuzzleReplacesAttemptState ==
    m_last.op = "start_puzzle" =>
        /\ move_attempts = 0
        /\ hints_used = 0
        /\ v_state = "active"
        /\ puzzle = PuzzleOf(current_puzzle)
        /\ board = setup_board(puzzle)
        /\ current_move_index = 0
        /\ hint_system = HintSystem(setup_board(puzzle), puzzle.moves[2])
        /\ timer \in {0, starts}

\* No attempt: the manager's per-attempt fields as __init__ sets them.
NoAttempt ==
    /\ current_puzzle = NoPuzzle
    /\ v_state = "none"
    /\ hint_system = NoHintSystem
    /\ move_attempts = 0
    /\ hints_used = 0
    /\ timer = 0

\* C29: finish_puzzle clears all per-attempt state, and is idempotent.
\* After it is_puzzle_complete() is false (there is no validator);
\* validate_move returns (False, "No active puzzle") and counts no attempt;
\* get_hint returns None and counts no hint; another finish_puzzle returns an
\* empty result and appends nothing.  The log grows only by one entry at a
\* time, and only in the finish_puzzle call that ends an attempt: one record
\* per started attempt at most.
C29_FinishClearsAndIsIdempotent ==
    /\ [](current_puzzle = NoPuzzle => NoAttempt)
    /\ [](Len(entries) <= starts)
    /\ [][ /\ m_last'.op = "finish_puzzle" => NoAttempt'
           /\ NoAttempt =>
                 /\ m_last'.op = "validate_move" =>
                       (m_last'.ret = "No active puzzle" /\ NoAttempt' /\ entries' = entries)
                 /\ m_last'.op = "get_hint" =>
                       (m_last'.ret = "None" /\ NoAttempt' /\ entries' = entries)
                 /\ m_last'.op = "finish_puzzle" =>
                       (m_last'.ret = "{}" /\ NoAttempt' /\ entries' = entries)
           /\ entries' # entries =>
                 /\ current_puzzle # NoPuzzle
                 /\ m_last'.op = "finish_puzzle"
                 /\ Len(entries') = Len(entries) + 1
                 /\ SubSeq(entries', 1, Len(entries)) = entries ]_vars

\* C29 witness: a second finish_puzzle, made after the attempt was ended and
\* recorded and after validate_move and get_hint had been refused, returned
\* the empty result with the log still holding the one record.
C29_Witness ==
    /\ m_last.op = "finish_puzzle"
    /\ m_last.ret = "{}"
    /\ starts >= 1
    /\ Len(entries) = 1
    /\ NoAttempt

----------------------------------------------------------------------------
(* The counters of an attempt *)

\* start_puzzle for a first attempt and for one more, which follows or
\* supersedes it.
start_puzzle_again == start_puzzle_upto(2)

\* manager.get_hint(), asked beyond the last hint level.
get_hint_repeated == get_hint_upto(MaxHintRequests)

CountNext ==
    \/ start_puzzle_again
    \/ Manager_validate_move
    \/ get_hint_repeated
    \/ Manager_finish_puzzle

\* The manager with up to MaxHintRequests hints in an attempt.
CountSpec == MgrInit /\ [][CountNext]_vars

\* C30: the attempt count recorded for an attempt is the number of
\* validate_move calls made through the manager while its puzzle was
\* active, and the recorded hints_used the number of get_hint calls of the
\* attempt.  Both counters are 0 after start_puzzle; every validate_move
\* call on an active puzzle, accepted or rejected for whatever reason, adds
\* 1 to move_attempts and leaves hints_used; every get_hint call on an
\* active puzzle, at level 4 as before it, adds 1 to hints_used and leaves
\* move_attempts; and the record written by finish_puzzle holds the two
\* counters as they stand.
C30_RecordedCountsAreCallCounts ==
    /\ [](v_state = "active" => hint_system # NoHintSystem)
    /\ [][ /\ m_last'.op = "start_puzzle" => (move_attempts' = 0 /\ hints_used' = 0)
           /\ (m_last'.op = "validate_move" /\ v_state = "active") =>
                 /\ v_last'.op = "validate_move"
                 /\ move_attempts' = move_attempts + 1
                 /\ hints_used' = hints_used
                 /\ entries' = entries
           /\ (m_last'.op = "get_hint" /\ v_state = "active") =>
                 /\ m_last'.ret = "hint"
                 /\ hints_used' = hints_used + 1
                 /\ move_attempts' = move_attempts
                 /\ entries' = entries
           /\ entries' # entries =>
                 /\ entries'[Len(entries')].puzzle_id = current_puzzle
                 /\ entries'[Len(entries')].attempts = move_attempts
                 /\ entries'[Len(entries')].hints_used = hints_used ]_vars

\* C30 witness: a record of a solved three-move solution with two
\* attempts counted, and five hints, one more than there are levels.
C30_Witness ==
    /\ m_last.op = "finish_puzzle"
    /\ Len(entries) = 1
    /\ entries[1].puzzle_id = 2
    /\ entries[1].solved
    /\ entries[1].attempts = 2
    /\ entries[1].hints_used = 5

====
